---------------------------- MODULE Spec2Model ----------------------------
(***************************************************************************)
(* Parcel resolution (src/app.py, find_parcel) and parcel ingestion        *)
(* (src/backend/scripts/etl_ingest_parcels.py) with the PostGIS lookups    *)
(* (src/backend/app/api/v1/endpoints/parcels.py, api/v1/parcels.py).       *)
(***************************************************************************)
EXTENDS Integers, Sequences, FiniteSets, TLC

VARIABLES
    store,      \* feature source: the where-clauses that match a feature
    geoHit,     \* feature source: a taxlot intersects the queried point
    rpc,        \* find_parcel: "idle", "byid", "bycoord", "done"
    req,        \* find_parcel: request.args (parcel, lat, lon)
    qi,         \* find_parcel: position of the for loop in queries
    qlog,       \* the GET requests this request has sent, in order
    resp,       \* find_parcel: the response returned
    dir,        \* DOWNLOAD_DIR (./temp_data) and the shapefile in it
    table,      \* the parcels table as committed in PostGIS
    lock,       \* the run whose open transaction has replaced parcels, or 0
    ipc,        \* per ingestion run: where the script is
    err,        \* per ingestion run: the step that raised, or ""
    shp,        \* per ingestion run: the shapefile gpd.read_file read
    gdf,        \* per ingestion run: the GeoDataFrame gdf
    sent,       \* per ingestion run: rows to_postgis has inserted
    atomic,     \* per ingestion run: to_postgis runs in one transaction
    pending,    \* per ingestion run: parcels as its open transaction sees it
    qres,       \* the last answer of a lookup_parcel request
    ares,       \* the last answer of an analyze_area request
    file,       \* sources.json
    wk          \* the request threads of the registry routes

rvars == <<store, geoHit, rpc, req, qi, qlog, resp>>
ivars == <<dir, table, lock, ipc, err, shp, gdf, sent, atomic, pending, qres>>
gvars == <<file, wk>>
xvars == <<ares, gvars>>
vars == <<rvars, ivars, xvars>>

(***************************************************************************)
(* Identifier resolution: src/app.py                                       *)
(***************************************************************************)

\* The identifier the diagnostics script knows (src/debug_gis.py:39).
TestParcel == "986035637"

Fields == {"SERIAL_NUM", "PropertyID"}
Forms == {"numeric", "quoted"}

\* A where-clause "<field> = <parcel>" (numeric) or "<field> = '<parcel>'".
Where(f, m) == [field |-> f, form |-> m]
WhereClauses == {Where(f, m) : f \in Fields, m \in Forms}

\* A variant with the alias also tried as a numeric literal.
QueriesAliasBothForms ==
    << Where("SERIAL_NUM", "numeric"), Where("SERIAL_NUM", "quoted"),
       Where("PropertyID", "numeric"), Where("PropertyID", "quoted") >>

\* queries, src/app.py:124
Queries ==
    << Where("SERIAL_NUM", "numeric"), Where("SERIAL_NUM", "quoted"),
       Where("PropertyID", "quoted") >>

\* What one requests.get can end in: a 200 with a JSON body, a non-OK
\* status (its body an ArcGIS error object), a body that is not JSON
\* (resp.json() raises), or an exception of requests itself (connection
\* error, timeout=5 elapsed).
Outcomes == {"ok", "http_error", "bad_body", "timeout"}

\* The outcomes in which requests.get or resp.json() raises.
Raises(out) == out \in {"bad_body", "timeout"}

\* resp.ok and resp.json().get("features"), src/app.py:128
Hit(q, out) == out = "ok" /\ q \in store

NoResp == [status |-> 0, error |-> "", winner |-> Where("", "")]
Result(q) == [status |-> 200, error |-> "", winner |-> q]
Error(code, msg) == [status |-> code, error |-> msg, winner |-> Where("", "")]

ArgValues == {"", "45.63", "abc"}
WellFormed(s) == s = "45.63"

\* find_parcel, entry: src/app.py:116-122, 133, 144
find_parcel(parcel, lat, lon) ==
    /\ rpc \in {"idle", "done"}
    /\ req' = [parcel |-> parcel, lat |-> lat, lon |-> lon]
    /\ qlog' = << >>
    /\ qi' = 1
    /\ IF parcel # ""
         THEN rpc' = "byid" /\ resp' = NoResp
         ELSE IF lat # "" /\ lon # ""
           THEN rpc' = "bycoord" /\ resp' = NoResp
           ELSE rpc' = "done" /\ resp' = Error(400, "Invalid input")
    /\ UNCHANGED <<store, geoHit, ivars, xvars>>

\* A loop body that does not return on a hit: the last match wins.
QueryCandidateNoReturn(out) ==
    /\ rpc = "byid"
    /\ LET q == Queries[qi]
           hit == Hit(q, out)
       IN /\ qlog' = Append(qlog, [q |-> q, out |-> out, hit |-> hit])
          /\ IF qi < Len(Queries)
               THEN /\ qi' = qi + 1
                    /\ rpc' = rpc
                    /\ resp' = IF hit THEN Result(q) ELSE resp
               ELSE /\ qi' = qi
                    /\ rpc' = "done"
                    /\ resp' = IF hit THEN Result(q)
                               ELSE IF resp.status = 200 THEN resp
                               ELSE Error(404, "Parcel not found")
    /\ UNCHANGED <<store, geoHit, req, ivars, xvars>>

\* A loop body without the try/except: an exception ends the request.
QueryCandidateUnguarded(out) ==
    /\ rpc = "byid"
    /\ LET q == Queries[qi]
           hit == Hit(q, out)
       IN /\ qlog' = Append(qlog, [q |-> q, out |-> out, hit |-> hit])
          /\ IF hit
               THEN rpc' = "done" /\ resp' = Result(q) /\ qi' = qi
               ELSE IF Raises(out)
                 THEN rpc' = "done" /\ qi' = qi
                      /\ resp' = Error(500, "Internal Server Error")
                 ELSE IF qi < Len(Queries)
                   THEN qi' = qi + 1 /\ UNCHANGED <<rpc, resp>>
                   ELSE rpc' = "done" /\ qi' = qi
                        /\ resp' = Error(404, "Parcel not found")
    /\ UNCHANGED <<store, geoHit, req, ivars, xvars>>

\* A loop body that asks again for a candidate whose call raised.
QueryCandidateRetry(out) ==
    /\ rpc = "byid"
    /\ LET q == Queries[qi]
           hit == Hit(q, out)
       IN /\ qlog' = Append(qlog, [q |-> q, out |-> out, hit |-> hit])
          /\ IF hit
               THEN rpc' = "done" /\ resp' = Result(q) /\ qi' = qi
               ELSE IF out = "timeout" /\ Len(qlog) < 2 * Len(Queries)
                 THEN UNCHANGED <<rpc, resp, qi>>
                 ELSE IF qi < Len(Queries)
                   THEN qi' = qi + 1 /\ UNCHANGED <<rpc, resp>>
                   ELSE rpc' = "done" /\ qi' = qi
                        /\ resp' = Error(404, "Parcel not found")
    /\ UNCHANGED <<store, geoHit, req, ivars, xvars>>

\* One iteration of "for q in queries" and, after the last one, the 404:
\* src/app.py:125-130
QueryCandidate(out) ==
    /\ rpc = "byid"
    /\ LET q == Queries[qi]
           hit == Hit(q, out)
       IN /\ qlog' = Append(qlog, [q |-> q, out |-> out, hit |-> hit])
          /\ IF hit
               THEN rpc' = "done" /\ resp' = Result(q) /\ qi' = qi
               ELSE IF qi < Len(Queries)
                 THEN qi' = qi + 1 /\ UNCHANGED <<rpc, resp>>
                 ELSE rpc' = "done" /\ qi' = qi
                      /\ resp' = Error(404, "Parcel not found")
    /\ UNCHANGED <<store, geoHit, req, ivars, xvars>>

\* The point query the source answers for "geometry": lon,lat.
PointWhere == Where("geometry", "point")

\* Search by lat/lon: src/app.py:133-136.  The call is outside any try and
\* resp.json() is read without resp.ok: an exception or a body that is not
\* JSON leaves the handler by an exception (Flask answers 500).
QueryPoint(out) ==
    /\ rpc = "bycoord"
    /\ LET hit == out = "ok" /\ geoHit
                  /\ WellFormed(req.lat) /\ WellFormed(req.lon)
       IN /\ qlog' = Append(qlog, [q |-> PointWhere, out |-> out, hit |-> hit])
          /\ resp' = IF Raises(out)
                       THEN Error(500, "Internal Server Error")
                     ELSE IF hit THEN Result(PointWhere)
                     ELSE Error(404, "No parcel found")
    /\ rpc' = "done"
    /\ UNCHANGED <<store, geoHit, req, qi, ivars, xvars>>

(***************************************************************************)
(* Ingestion: src/backend/scripts/etl_ingest_parcels.py                    *)
(***************************************************************************)

NULL == "NULL"

\* The longest attribute table of a shapefile of the model.
MaxRows == 3

\* chunksize=1000, src/backend/scripts/etl_ingest_parcels.py:108, scaled to
\* two rows so that a load of MaxRows rows takes more than one batch.
ChunkSize == 2

\* The invocations of the script (python etl_ingest_parcels.py).
RunIds == {1, 2}

\* COLUMN_MAPPING, src/backend/scripts/etl_ingest_parcels.py:28-38
COLUMN_MAPPING ==
    ("SERIAL_NUM" :> "parcel_id") @@ ("SITEADDR" :> "site_address")
    @@ ("OWNER" :> "owner_name") @@ ("LANDVAL" :> "land_value")
    @@ ("BLDGVAL" :> "building_value") @@ ("YRBUILT" :> "year_built")
    @@ ("ACRES" :> "acres") @@ ("ZONING" :> "zoning_code")

\* Column layouts of the published shapefile: the full one, one without
\* OWNER, one without SERIAL_NUM and with two mapped columns left, and one
\* with no mapped column at all.
FullLayout == DOMAIN COLUMN_MAPPING \cup {"OBJECTID"}
Layouts ==
    { FullLayout, FullLayout \ {"OWNER"}, {"OWNER", "ACRES", "OBJECTID"},
      {"OBJECTID"} }

Crs == {"EPSG:2927", "EPSG:4326"}
SerialValues == {NULL, "101", "102"}

\* An assessed amount of a row: void, or a number.
NullMoney == [null |-> TRUE, amount |-> 0]
Money(n) == [null |-> FALSE, amount |-> n]
Moneys == {NullMoney, Money(0), Money(2)}

\* The LANDVAL and BLDGVAL of a row.
Assessments == [land : Moneys, bldg : Moneys]
Assessed == [land |-> Money(2), bldg |-> Money(2)]

\* A shapefile: its columns, its reference system and, per row, the value
\* of SERIAL_NUM and the assessed amounts (row i's polygon covers cell i).
Shapefiles ==
    { [cols |-> l, crs |-> c, sn |-> s, val |-> [i \in DOMAIN s |-> Assessed]] :
        l \in Layouts, c \in Crs,
        s \in UNION {[1..k -> SerialValues] : k \in 0..MaxRows} }

\* Shapefiles that differ: without the SERIAL_NUM column its value is void.
Published ==
    { f \in Shapefiles :
        "SERIAL_NUM" \notin f.cols => \A i \in 1..Len(f.sn) : f.sn[i] = NULL }

NoShp == [cols |-> {}, crs |-> "", sn |-> << >>, val |-> << >>]
NoDir == [exists |-> FALSE, shp |-> NoShp]

\* gpd.read_file, src/backend/scripts/etl_ingest_parcels.py:71
read_file(f) ==
    [cols |-> f.cols \cup {"geometry"},
     crs |-> f.crs,
     rows |-> [i \in 1..Len(f.sn) |->
                 [vals |-> [c \in f.cols |->
                              IF c = "SERIAL_NUM" THEN f.sn[i]
                              ELSE IF c = "LANDVAL" THEN f.val[i].land
                              ELSE IF c = "BLDGVAL" THEN f.val[i].bldg
                              ELSE "v"],
                  cell |-> i]]]

\* A frame left in the reference system it was read in.
to_crs_skipped(g) == g

\* A shapefile without a .prj: gdf.crs is None.
NoCrs == ""

\* Step 1, src/backend/scripts/etl_ingest_parcels.py:76-78
to_crs(g) ==
    IF g.crs # "EPSG:4326" THEN [g EXCEPT !.crs = "EPSG:4326"] ELSE g

\* keep_cols, src/backend/scripts/etl_ingest_parcels.py:83
keep_cols == DOMAIN COLUMN_MAPPING \cup {"geometry"}

\* existing_cols, src/backend/scripts/etl_ingest_parcels.py:85
existing_cols(g) == {c \in keep_cols : c \in g.cols}

\* gdf = gdf[existing_cols], src/backend/scripts/etl_ingest_parcels.py:86
select_cols(g) ==
    [g EXCEPT
       !.cols = existing_cols(g),
       !.rows = [i \in 1..Len(g.rows) |->
                   [g.rows[i] EXCEPT
                      !.vals = [c \in existing_cols(g) \ {"geometry"} |->
                                  g.rows[i].vals[c]]]]]

renamed(c) == IF c \in DOMAIN COLUMN_MAPPING THEN COLUMN_MAPPING[c] ELSE c

\* gdf.rename(columns=COLUMN_MAPPING),
\* src/backend/scripts/etl_ingest_parcels.py:89
rename(g) ==
    LET old(d) == CHOOSE c \in g.cols : renamed(c) = d
    IN [g EXCEPT
          !.cols = {renamed(c) : c \in g.cols},
          !.rows = [i \in 1..Len(g.rows) |->
                      [g.rows[i] EXCEPT
                         !.vals = [d \in {renamed(c) : c \in DOMAIN @} |->
                                     g.rows[i].vals[old(d)]]]]]

\* Steps 1 to 3 of process_and_load,
\* src/backend/scripts/etl_ingest_parcels.py:71-93
clean(f) == rename(select_cols(to_crs(read_file(f))))

NoGdf == [cols |-> {}, crs |-> "", rows |-> << >>]

\* The table parcels: its columns, rows and indexes.
NoTable == [exists |-> FALSE, cols |-> {}, rows |-> << >>, indexes |-> {}]

\* if_exists="replace": the table is dropped and created again from the
\* frame's columns, with no row and no index (src/.../etl_ingest_parcels.py
\* :105, :111).
replaced(g) == [exists |-> TRUE, cols |-> g.cols, rows |-> << >>, indexes |-> {}]

\* Row i of the frame as written: its geometry in the frame's crs.
written(g, i) == [vals |-> g.rows[i].vals, cell |-> g.rows[i].cell, srid |-> g.crs]

Min(a, b) == IF a < b THEN a ELSE b

\* The batch that follows n inserted rows (chunksize rows, or what is left).
chunk(g, n) == [i \in 1..(Min(n + ChunkSize, Len(g.rows)) - n) |-> written(g, n + i)]

\* The complete table of a frame, before the indexes.
loaded(g) ==
    [replaced(g) EXCEPT !.rows = [i \in 1..Len(g.rows) |-> written(g, i)]]

Indexes == {"idx_parcels_geom", "idx_parcels_parcel_id"}

Fail(r, step) ==
    /\ ipc' = [ipc EXCEPT ![r] = "failed"]
    /\ err' = [err EXCEPT ![r] = step]

Goto(r, pc) ==
    /\ ipc' = [ipc EXCEPT ![r] = pc]
    /\ err' = err

\* download_and_extract, src/backend/scripts/etl_ingest_parcels.py:40-56.
\* got: the GET answered 200 with the archive holding shapefile f.
download_and_extract(r, f, got) ==
    /\ ipc[r] = "idle"
    /\ IF got
         THEN dir' = [exists |-> TRUE, shp |-> f] /\ Goto(r, "downloaded")
         ELSE dir' = [dir EXCEPT !.exists = TRUE] /\ Fail(r, "download")
    /\ UNCHANGED <<rvars, xvars, table, lock, shp, gdf, sent, atomic, pending, qres>>

\* process_and_load up to step 3: the shapefile is read from DOWNLOAD_DIR,
\* reprojected, cut to the mapped columns and renamed
\* (src/backend/scripts/etl_ingest_parcels.py:58-93).  Without a reference
\* system gdf.crs.to_string() raises and the run ends there.
read_and_clean(r) ==
    /\ ipc[r] = "downloaded"
    /\ IF dir.exists /\ dir.shp # NoShp /\ dir.shp.crs # NoCrs
         THEN /\ shp' = [shp EXCEPT ![r] = dir.shp]
              /\ gdf' = [gdf EXCEPT ![r] = clean(dir.shp)]
              /\ Goto(r, "cleaned")
         ELSE /\ Fail(r, "read")
              /\ UNCHANGED <<shp, gdf>>
    /\ UNCHANGED <<rvars, xvars, dir, table, lock, sent, atomic, pending, qres>>

\* gdf.to_postgis("parcels", engine, if_exists="replace", ...): the table
\* is dropped and created from the frame
\* (src/backend/scripts/etl_ingest_parcels.py:96-105).  The script opens no
\* transaction of its own; whether the driver runs the replacement and the
\* batches in one transaction (inTxn) is not the script's choice.  In a
\* transaction the new table is private until the commit and parcels stays
\* locked against every other session.
to_postgis_replace(r, inTxn, fails) ==
    /\ ipc[r] = "cleaned"
    /\ lock = 0
    /\ IF fails
         THEN /\ Fail(r, "replace")
              /\ UNCHANGED <<table, lock, sent, atomic, pending>>
         ELSE /\ Goto(r, "loading")
              /\ atomic' = [atomic EXCEPT ![r] = inTxn]
              /\ sent' = [sent EXCEPT ![r] = 0]
              /\ IF inTxn
                   THEN /\ pending' = [pending EXCEPT ![r] = replaced(gdf[r])]
                        /\ lock' = r
                        /\ table' = table
                   ELSE /\ table' = replaced(gdf[r])
                        /\ UNCHANGED <<lock, pending>>
    /\ UNCHANGED <<rvars, xvars, dir, shp, gdf, qres>>

\* One batch of chunksize rows is inserted, or the insert raises
\* (src/backend/scripts/etl_ingest_parcels.py:102-109).  An exception ends
\* the script; an open transaction is rolled back.
to_postgis_chunk(r, fails) ==
    /\ ipc[r] = "loading"
    /\ sent[r] < Len(gdf[r].rows)
    /\ atomic[r] \/ lock = 0
    /\ LET t == IF atomic[r] THEN pending[r] ELSE table
           c == chunk(gdf[r], sent[r])
       IN IF fails \/ ~t.exists \/ ~(gdf[r].cols \subseteq t.cols)
            THEN /\ Fail(r, "batch")
                 /\ pending' = [pending EXCEPT ![r] = NoTable]
                 /\ lock' = IF atomic[r] THEN 0 ELSE lock
                 /\ UNCHANGED <<table, sent>>
            ELSE /\ Goto(r, "loading")
                 /\ sent' = [sent EXCEPT ![r] = @ + Len(c)]
                 /\ IF atomic[r]
                      THEN /\ pending' = [pending EXCEPT ![r].rows = @ \o c]
                           /\ table' = table
                      ELSE /\ table' = [table EXCEPT !.rows = @ \o c]
                           /\ pending' = pending
                 /\ lock' = lock
    /\ UNCHANGED <<rvars, xvars, dir, shp, gdf, atomic, qres>>

\* to_postgis returns after the last batch; an open transaction commits
\* (src/backend/scripts/etl_ingest_parcels.py:102-109).
to_postgis_end(r) ==
    /\ ipc[r] = "loading"
    /\ sent[r] = Len(gdf[r].rows)
    /\ Goto(r, "loaded")
    /\ IF atomic[r]
         THEN /\ table' = pending[r]
              /\ pending' = [pending EXCEPT ![r] = NoTable]
              /\ lock' = 0
         ELSE UNCHANGED <<table, pending, lock>>
    /\ UNCHANGED <<rvars, xvars, dir, shp, gdf, sent, atomic, qres>>

\* Step 5, src/backend/scripts/etl_ingest_parcels.py:111-116: two CREATE
\* INDEX IF NOT EXISTS and a commit.  The second raises when parcels has no
\* parcel_id column; whether the first index survives the missing commit
\* depends on the driver (kept).
create_indexes(r, fails, kept) ==
    /\ ipc[r] = "loaded"
    /\ lock = 0
    /\ IF fails \/ ~table.exists \/ "geometry" \notin table.cols
         THEN Fail(r, "index") /\ table' = table
         ELSE IF "parcel_id" \notin table.cols
           THEN /\ Fail(r, "index")
                /\ table' = IF kept
                              THEN [table EXCEPT !.indexes = @ \cup {"idx_parcels_geom"}]
                              ELSE table
           ELSE /\ Goto(r, "indexed")
                /\ table' = [table EXCEPT !.indexes = Indexes]
    /\ UNCHANGED <<rvars, xvars, dir, lock, shp, gdf, sent, atomic, pending, qres>>

\* shutil.rmtree(DOWNLOAD_DIR), src/backend/scripts/etl_ingest_parcels.py:121
remove_download_dir(r) ==
    /\ ipc[r] = "indexed"
    /\ IF dir.exists
         THEN dir' = NoDir /\ Goto(r, "done")
         ELSE dir' = dir /\ Fail(r, "cleanup")
    /\ UNCHANGED <<rvars, xvars, table, lock, shp, gdf, sent, atomic, pending, qres>>

\* One step of run r, the county publishing one of the shapefiles F.
RunStep(r, F) ==
    \/ \E f \in F, got \in BOOLEAN : download_and_extract(r, f, got)
    \/ read_and_clean(r)
    \/ \E inTxn \in BOOLEAN, fails \in BOOLEAN : to_postgis_replace(r, inTxn, fails)
    \/ \E fails \in BOOLEAN : to_postgis_chunk(r, fails)
    \/ to_postgis_end(r)
    \/ \E fails \in BOOLEAN, kept \in BOOLEAN : create_indexes(r, fails, kept)
    \/ remove_download_dir(r)

(***************************************************************************)
(* Point lookup: src/backend/app/api/v1/endpoints/parcels.py and           *)
(* src/backend/app/api/v1/parcels.py                                       *)
(***************************************************************************)

\* The cells a click can fall in.
Points == 1..MaxRows

NoRow == [vals |-> << >>, cell |-> 0, srid |-> ""]
NoAnswer == [op |-> "", point |-> 0, kind |-> "none", row |-> NoRow,
             at |-> [r \in RunIds |-> ""]]

\* The columns the SELECT of lookup_parcel reads from parcels,
\* src/backend/app/api/v1/endpoints/parcels.py:105-113
SelectedByEndpoint ==
    {"parcel_id", "site_address", "owner_name", "zoning_code", "land_value",
     "building_value", "total_value", "year_built", "acres", "geometry"}

\* The columns the SELECT of lookup_parcel reads from parcels,
\* src/backend/app/api/v1/parcels.py:145-160 (total_value is computed).
SelectedByV1 == SelectedByEndpoint \ {"total_value"}

\* The value of column c in a row (NULL where the row holds none).
Val(row, c) == IF c \in DOMAIN row.vals THEN row.vals[c] ELSE NULL

\* COALESCE(v, 0)
COALESCE(v) == IF v.null THEN 0 ELSE v.amount

\* land_value + building_value as SQL adds: void when either is void.
total_value_plain(l, b) ==
    IF l.null \/ b.null THEN NullMoney ELSE Money(l.amount + b.amount)

\* (COALESCE(land_value, 0) + COALESCE(building_value, 0)) AS total_value,
\* src/backend/app/api/v1/parcels.py:81 and 153
total_value(l, b) == Money(COALESCE(l) + COALESCE(b))

\* The row as the SELECT returns it: with total_value computed from the
\* row's two amounts where the SELECT computes it, as stored where the
\* SELECT reads the column.
Returned(cols, row) ==
    IF "total_value" \in cols
      THEN row
      ELSE [row EXCEPT !.vals = @ @@ ("total_value" :>
                total_value(row.vals["land_value"], row.vals["building_value"]))]

\* What SELECT <cols> FROM parcels WHERE ST_Contains(geometry, point in
\* 4326) LIMIT 1 can answer on table t: an error when the table or one of
\* the columns is missing, else no row, else any one row containing p.
Answers(t, cols, p) ==
    IF ~t.exists \/ ~(cols \subseteq t.cols)
      THEN {[kind |-> "error", row |-> NoRow]}
      ELSE LET m == {i \in 1..Len(t.rows) :
                        t.rows[i].cell = p /\ t.rows[i].srid = "EPSG:4326"}
           IN IF m = {}
                THEN {[kind |-> "notfound", row |-> NoRow]}
                ELSE {[kind |-> "found", row |-> Returned(cols, t.rows[i])] :
                         i \in m}

\* The answer as the request returns it, with where each run was then.
Answered(op, p, a) ==
    [op |-> op, point |-> p, kind |-> a.kind, row |-> a.row, at |-> ipc]

\* lookup_parcel, src/backend/app/api/v1/endpoints/parcels.py:95-128.  The
\* SELECT waits while a transaction holds parcels locked.
lookup_parcel(p) ==
    /\ lock = 0
    /\ \E a \in Answers(table, SelectedByEndpoint, p) :
          qres' = Answered("endpoints", p, a)
    /\ UNCHANGED <<rvars, xvars, dir, table, lock, ipc, err, shp, gdf, sent, atomic,
                   pending>>

\* lookup_parcel, src/backend/app/api/v1/parcels.py:136-176
lookup_parcel_v1(p) ==
    /\ lock = 0
    /\ \E a \in Answers(table, SelectedByV1, p) :
          qres' = Answered("v1", p, a)
    /\ UNCHANGED <<rvars, xvars, dir, table, lock, ipc, err, shp, gdf, sent, atomic,
                   pending>>

(***************************************************************************)
(* Area analysis: src/backend/app/api/v1/parcels.py and                    *)
(* src/backend/app/api/v1/endpoints/parcels.py                             *)
(***************************************************************************)

\* The lassos a request can draw: the cells the polygon touches.
Polygons == SUBSET Points \ {{}}

\* LIMIT 500, src/backend/app/api/v1/parcels.py:87, scaled to two rows so
\* that a table of MaxRows rows can hold more intersecting parcels.
AreaLimitV1 == 2

\* LIMIT 200, src/backend/app/api/v1/endpoints/parcels.py:39, scaled alike.
AreaLimitEndpoint == 1

\* The columns the SELECT of analyze_area reads from parcels,
\* src/backend/app/api/v1/endpoints/parcels.py:29-40
SelectedByAnalyze ==
    {"id", "parcel_id", "site_address", "owner_name", "zoning_code",
     "total_value", "acres", "investment_score", "geometry"}

\* WHERE ST_Intersects(geometry, <polygon in 4326>): the rows that match.
Intersecting(t, poly) ==
    {i \in 1..Len(t.rows) :
        t.rows[i].cell \in poly /\ t.rows[i].srid = "EPSG:4326"}

\* A query without its LIMIT: every matching row is returned.
Unlimited(m, limit) == {m}

\* LIMIT <limit> with no ORDER BY: any limit of the matching rows, or all
\* of them when they are fewer.
Limited(m, limit) ==
    {x \in SUBSET m : Cardinality(x) = Min(limit, Cardinality(m))}

NoArea == [op |-> "", polygon |-> {}, limit |-> 0, kind |-> "none",
           matching |-> {}, idx |-> {}, rows |-> {}]

AreaError(op, poly, limit) ==
    [op |-> op, polygon |-> poly, limit |-> limit, kind |-> "error",
     matching |-> {}, idx |-> {}, rows |-> {}]

\* analyze_area, src/backend/app/api/v1/parcels.py:62-134.  The request
\* body is a GeometryRequest (type, coordinates): a limit the caller sends
\* along is not a field of it and is not read.
analyze_area_v1(poly, limit) ==
    /\ lock = 0
    /\ IF ~table.exists \/ ~(SelectedByV1 \subseteq table.cols)
         THEN ares' = AreaError("v1", poly, limit)
         ELSE LET m == Intersecting(table, poly)
              IN \E x \in Limited(m, AreaLimitV1) :
                    ares' = [op |-> "v1", polygon |-> poly, limit |-> limit,
                             kind |-> "ok", matching |-> m, idx |-> x,
                             rows |-> {Returned(SelectedByV1, table.rows[i]) :
                                          i \in x}]
    /\ UNCHANGED <<rvars, ivars, gvars>>

\* analyze_area, src/backend/app/api/v1/endpoints/parcels.py:13-90.  The
\* query is outside any try; ParcelResponse requires parcel_id to be a str
\* (src/backend/app/schemas/parcel.py:20).
analyze_area(poly, limit) ==
    /\ lock = 0
    /\ IF ~table.exists \/ ~(SelectedByAnalyze \subseteq table.cols)
         THEN ares' = AreaError("endpoints", poly, limit)
         ELSE LET m == Intersecting(table, poly)
              IN \E x \in Limited(m, AreaLimitEndpoint) :
                    ares' = IF \E i \in x : Val(table.rows[i], "parcel_id") = NULL
                              THEN AreaError("endpoints", poly, limit)
                              ELSE [op |-> "endpoints", polygon |-> poly,
                                    limit |-> limit, kind |-> "ok",
                                    matching |-> m, idx |-> x,
                                    rows |-> {table.rows[i] : i \in x}]
    /\ UNCHANGED <<rvars, ivars, gvars>>

(***************************************************************************)
(* The registry of data sources: src/app.py                                *)
(***************************************************************************)

\* The requests in flight at once; the development server of app.run
\* (src/app.py:202) serves each request on a thread of its own.
MaxRequests == 2
Threads == 1..MaxRequests

\* str(n) of the ids a registry of this size can hold.
Digits == <<"1", "2", "3", "4", "5", "6", "7", "8", "9">>
str(n) == Digits[n]

\* The ids a toggle request can name.
SourceIds == {str(1), str(2)}

\* sources.json: absent, holding a JSON list, or holding no JSON (empty
\* after open(..., 'w'), or a shorter text written over a longer one).
NoFile == [state |-> "absent", sources |-> << >>]
Json(l) == [state |-> "json", sources |-> l]
BadFile == [state |-> "bad", sources |-> << >>]

NoWork == [pc |-> "idle", op |-> "", arg |-> "", sources |-> << >>]

\* The text of list a is shorter than that of list b: fewer sources, or as
\* many with fewer of them inactive ("true" is shorter than "false").
Inactive(l) == Cardinality({i \in 1..Len(l) : ~l[i].active})
Shorter(a, b) ==
    \/ Len(a) < Len(b)
    \/ Len(a) = Len(b) /\ Inactive(a) < Inactive(b)

\* add_source between load_sources and save_sources, src/app.py:88-92
added(l, name) == Append(l, [name |-> name, id |-> str(Len(l) + 1), active |-> TRUE])

\* toggle_source between load_sources and save_sources, src/app.py:98-100
toggled(l, id) ==
    [i \in 1..Len(l) |-> IF l[i].id = id THEN [l[i] EXCEPT !.active = ~@] ELSE l[i]]

\* add_source up to its save_sources, src/app.py:86-92; load_sources
\* (src/app.py:32-35) answers [] without the file and raises on a file that
\* holds no JSON.  The source is named after its request.
add_source(t) ==
    /\ wk[t].pc = "idle"
    /\ wk' = [wk EXCEPT ![t] =
                IF file.state = "bad"
                  THEN [@ EXCEPT !.pc = "failed", !.op = "add", !.arg = str(t)]
                  ELSE [@ EXCEPT !.pc = "loaded", !.op = "add", !.arg = str(t),
                                 !.sources = added(file.sources, str(t))]]
    /\ UNCHANGED <<rvars, ivars, ares, file>>

\* toggle_source up to its save_sources, src/app.py:96-100
toggle_source(t, id) ==
    /\ wk[t].pc = "idle"
    /\ wk' = [wk EXCEPT ![t] =
                IF file.state = "bad"
                  THEN [@ EXCEPT !.pc = "failed", !.op = "toggle", !.arg = id]
                  ELSE [@ EXCEPT !.pc = "loaded", !.op = "toggle", !.arg = id,
                                 !.sources = toggled(file.sources, id)]]
    /\ UNCHANGED <<rvars, ivars, ares, file>>

\* save_sources, src/app.py:37-38: open(DATA_SOURCES_FILE, 'w') empties the
\* file.
save_sources_open(t) ==
    /\ wk[t].pc = "loaded"
    /\ file' = BadFile
    /\ wk' = [wk EXCEPT ![t] = [@ EXCEPT !.pc = "opened"]]
    /\ UNCHANGED <<rvars, ivars, ares>>

\* save_sources, src/app.py:38: json.dump and the close write the text from
\* the start of the file, over what another thread wrote there since the
\* open; the request then answers success.
save_sources_dump(t) ==
    /\ wk[t].pc = "opened"
    /\ file' = IF file.state = "json" /\ Shorter(wk[t].sources, file.sources)
                 THEN BadFile
                 ELSE Json(wk[t].sources)
    /\ wk' = [wk EXCEPT ![t] = [@ EXCEPT !.pc = "done"]]
    /\ UNCHANGED <<rvars, ivars, ares>>

IdleRegistry ==
    /\ file = NoFile
    /\ wk = [t \in Threads |-> NoWork]

(***************************************************************************)
(* Specifications                                                          *)
(***************************************************************************)

\* The shapefile of the load that filled the live table.
LiveShapefile ==
    [cols |-> FullLayout, crs |-> "EPSG:2927", sn |-> <<"101", "102">>,
     val |-> <<Assessed, Assessed>>]

\* The live table: a completed run on LiveShapefile.
LiveTable == [loaded(clean(LiveShapefile)) EXCEPT !.indexes = Indexes]

IdleResolver ==
    /\ rpc = "idle"
    /\ req = [parcel |-> "", lat |-> "", lon |-> ""]
    /\ qi = 1
    /\ qlog = << >>
    /\ resp = NoResp

IdleIngest ==
    /\ dir = NoDir
    /\ table = LiveTable
    /\ lock = 0
    /\ ipc = [r \in RunIds |-> "idle"]
    /\ err = [r \in RunIds |-> ""]
    /\ shp = [r \in RunIds |-> NoShp]
    /\ gdf = [r \in RunIds |-> NoGdf]
    /\ sent = [r \in RunIds |-> 0]
    /\ atomic = [r \in RunIds |-> FALSE]
    /\ pending = [r \in RunIds |-> NoTable]
    /\ qres = NoAnswer
    /\ ares = NoArea
    /\ IdleRegistry

InitResolver ==
    /\ store \in SUBSET WhereClauses
    /\ geoHit \in BOOLEAN
    /\ IdleResolver
    /\ IdleIngest

NextResolver ==
    \/ \E parcel \in {"", TestParcel}, lat \in ArgValues, lon \in ArgValues :
          find_parcel(parcel, lat, lon)
    \/ \E out \in Outcomes : QueryCandidate(out)
    \/ \E out \in Outcomes : QueryPoint(out)

SpecResolver == InitResolver /\ [][NextResolver]_vars

\* The request thread runs on: every requests.get returns or raises within
\* its timeout (src/app.py:127, 135).
SpecResolverFair ==
    /\ SpecResolver
    /\ WF_vars(\E out \in Outcomes : QueryCandidate(out))
    /\ WF_vars(\E out \in Outcomes : QueryPoint(out))

InitIngest ==
    /\ store = {}
    /\ geoHit = FALSE
    /\ IdleResolver
    /\ IdleIngest

\* One run of the script at a time, lookups at any moment.
NextIngest ==
    \/ \E r \in {1} : RunStep(r, Published)
    \/ \E p \in Points : lookup_parcel(p)
    \/ \E p \in Points : lookup_parcel_v1(p)

SpecIngest == InitIngest /\ [][NextIngest]_vars

\* The shapefiles of the overlapping runs: full layout, MaxRows rows, all
\* of one serial number.
Overlapping ==
    { f \in Published :
        /\ f.cols = FullLayout /\ f.crs = "EPSG:2927" /\ Len(f.sn) = MaxRows
        /\ \E v \in {"101", "102"} : \A i \in 1..MaxRows : f.sn[i] = v }

\* Nothing in the script keeps a second invocation from starting.
NextOverlap ==
    \/ \E r \in RunIds : RunStep(r, Overlapping)
    \/ \E p \in Points : lookup_parcel_v1(p)

SpecOverlap == InitIngest /\ [][NextOverlap]_vars

\* The shapefiles of the area analysis: the full layout or the one without
\* OWNER, every row of serial number 101.
AreaShapefiles ==
    { f \in Published :
        /\ f.cols \in {FullLayout, FullLayout \ {"OWNER"}}
        /\ \A i \in 1..Len(f.sn) : f.sn[i] = "101" }

\* The limits a caller may send along.
Limits == 1..MaxRows

\* One run of the script, area analyses at any moment.
NextArea ==
    \/ \E r \in {1} : RunStep(r, AreaShapefiles)
    \/ \E poly \in Polygons, limit \in Limits : analyze_area_v1(poly, limit)
    \/ \E poly \in Polygons, limit \in Limits : analyze_area(poly, limit)

SpecArea == InitIngest /\ [][NextArea]_vars

\* The shapefiles whose assessed amounts vary: two rows, the first of any
\* amounts and the second of none or of the usual ones, with or without
\* the BLDGVAL column.
ValuedShapefiles ==
    { [cols |-> l, crs |-> "EPSG:2927", sn |-> <<"101", "102">>,
       val |-> <<a, b>>] :
        l \in {FullLayout, FullLayout \ {"BLDGVAL"}},
        a \in Assessments,
        b \in {Assessed, [land |-> NullMoney, bldg |-> NullMoney]} }

\* One run of the script, every query at any moment.
NextValues ==
    \/ \E r \in {1} : RunStep(r, ValuedShapefiles)
    \/ \E p \in Points : lookup_parcel(p)
    \/ \E p \in Points : lookup_parcel_v1(p)
    \/ \E limit \in {1} : analyze_area_v1(Points, limit)
    \/ \E limit \in {1} : analyze_area(Points, limit)

SpecValues == InitIngest /\ [][NextValues]_vars

\* The shapefiles of any reference system or of none: the full layout or
\* the one without OWNER, every row of serial number 101.
AnyCrs == Crs \cup {"EPSG:3857", NoCrs}
ProjectedShapefiles ==
    { [cols |-> l, crs |-> c, sn |-> [i \in 1..k |-> "101"],
       val |-> [i \in 1..k |-> Assessed]] :
        l \in {FullLayout, FullLayout \ {"OWNER"}}, c \in AnyCrs,
        k \in 0..MaxRows }

\* One run of the script on such a shapefile, lookups at any moment.
NextProjection ==
    \/ \E r \in {1} : RunStep(r, ProjectedShapefiles)
    \/ \E p \in Points : lookup_parcel_v1(p)

SpecProjection == InitIngest /\ [][NextProjection]_vars

\* The registry routes, each request on its own thread.
NextRegistry ==
    \/ \E t \in Threads : add_source(t)
    \/ \E t \in Threads, id \in SourceIds : toggle_source(t, id)
    \/ \E t \in Threads : save_sources_open(t)
    \/ \E t \in Threads : save_sources_dump(t)

SpecRegistry == InitIngest /\ [][NextRegistry]_vars

(***************************************************************************)
(* Claims on identifier resolution                                         *)
(***************************************************************************)

ById == req.parcel # ""

\* The place of a where-clause in the order the specification states:
\* the primary field before the alias, numeric before quoted.
Rank(q) == (IF q.field = "SERIAL_NUM" THEN 0 ELSE 2)
           + (IF q.form = "numeric" THEN 0 ELSE 1)

\* C1: the candidates are queried in their declared order (SERIAL_NUM before
\* PropertyID, numeric before quoted), nothing is queried after a candidate
\* returned a feature, and a 200 carries the first candidate that did.
C1_FirstMatchWins ==
    ById =>
      /\ \A i, j \in 1..Len(qlog) : i < j => Rank(qlog[i].q) < Rank(qlog[j].q)
      /\ \A i \in 1..Len(qlog) : qlog[i].hit => i = Len(qlog)
      /\ \A i \in 1..Len(qlog) :
            qlog[i].hit => rpc = "done" /\ resp = Result(qlog[i].q)
      /\ resp.status = 200 =>
            /\ qlog # << >>
            /\ qlog[Len(qlog)].hit
            /\ resp.winner = qlog[Len(qlog)].q

\* C1, its case: SERIAL_NUM wins although PropertyID would have matched too.
C1_Witness ==
    /\ ById /\ rpc = "done" /\ resp.status = 200
    /\ resp.winner = Where("SERIAL_NUM", "numeric")
    /\ Where("PropertyID", "quoted") \in store
    /\ Len(qlog) = 1

OnlyAliasQuoted == store = {Where("PropertyID", "quoted")}

Matching == {i \in 1..Len(Queries) : Queries[i] \in store}

\* C3: a failed call counts as an empty result.  It never ends the request
\* (no 500, no early 404): after a failure on a candidate that is not the
\* last, the next candidate is queried, and a request that ends without a
\* feature has queried every candidate.
C3_FailureIsEmptyResult ==
    ById =>
      /\ resp.status \in {0, 200, 404}
      /\ \A i \in 1..Len(qlog) :
            (qlog[i].out # "ok" /\ i < Len(Queries)) =>
                \/ Len(qlog) > i
                \/ rpc = "byid" /\ qi = i + 1
      /\ (rpc = "done" /\ resp.status # 200) =>
            /\ Len(qlog) = Len(Queries)
            /\ \A i \in Matching : qlog[i].out # "ok"

\* C3, its case: an earlier call failed and a later candidate won.
C3_Witness ==
    /\ ById /\ rpc = "done" /\ resp.status = 200
    /\ Len(qlog) = 3
    /\ qlog[1].out = "timeout" /\ qlog[2].out = "bad_body"
    /\ Where("SERIAL_NUM", "numeric") \in store

\* C4, safety part: no where-clause is sent twice, at most one query is
\* sent per candidate, and "Parcel not found" is answered only when every
\* candidate has been queried and none returned a feature.
C4_OncePerCandidate ==
    ById =>
      /\ \A i, j \in 1..Len(qlog) : qlog[i].q = qlog[j].q => i = j
      /\ Len(qlog) <= Len(Queries)
      /\ resp.status = 404 =>
            /\ rpc = "done"
            /\ {qlog[i].q : i \in 1..Len(qlog)}
                 = {Queries[i] : i \in 1..Len(Queries)}
            /\ \A i \in 1..Len(qlog) : ~qlog[i].hit

\* C4: identifier resolution always terminates, having queried each
\* candidate at most once, and reports "Parcel not found" only when no
\* untried candidate remains.
C4_Terminates ==
    /\ [](C4_OncePerCandidate)
    /\ (rpc = "byid") ~> (rpc = "done")

\* C4, its case: every candidate tried once, some by a failed call, then 404.
C4_Witness ==
    /\ ById /\ rpc = "done" /\ resp = Error(404, "Parcel not found")
    /\ Len(qlog) = 3
    /\ qlog[2].out = "timeout"


(***************************************************************************)
(* Claims on ingestion                                                     *)
(***************************************************************************)

Selected(op) == IF op = "endpoints" THEN SelectedByEndpoint ELSE SelectedByV1

\* What a lookup can answer on a complete dataset: the one live before the
\* run, or the one the run loads.
CompleteAnswers(r, op, p) ==
    Answers(LiveTable, Selected(op), p)
        \cup Answers(loaded(gdf[r]), Selected(op), p)

Active(r) == ipc[r] \notin {"idle", "done", "failed"}

\* C7 as stated: at most one ingestion run is active at any time.
C7_OneRunAtATime == Cardinality({r \in RunIds : Active(r)}) <= 1

\* C8 as stated: after a successful run every row of parcels has a
\* parcel_id that is not null and that no other row has.
C8_UniqueNonNullIds ==
    ipc[1] = "done" =>
        /\ \A i \in 1..Len(table.rows) : Val(table.rows[i], "parcel_id") # NULL
        /\ \A i, j \in 1..Len(table.rows) :
              Val(table.rows[i], "parcel_id") = Val(table.rows[j], "parcel_id")
                  => i = j

\* C9 as stated: after the run on a shapefile that has every mapped column
\* but OWNER, a lookup (the one that computes total_value) answers without
\* an error, and the parcel it finds has a null owner_name.
C9_MissingOwnerReadsNull ==
    (shp[1].cols = FullLayout \ {"OWNER"} /\ ipc[1] = "done"
        /\ qres.at[1] = "done" /\ qres.op = "v1") =>
            /\ qres.kind # "error"
            /\ qres.kind = "found" => Val(qres.row, "owner_name") = NULL

\* The mapped columns the shapefile of run r has.
Found(r) == shp[r].cols \cap DOMAIN COLUMN_MAPPING

\* C10 as stated: once the shapefile is read, the run has failed with the
\* live table untouched if none of the mapped columns is in it, and goes on
\* with exactly the mapped columns it has otherwise.
C10_FatalIffNoMappedColumn ==
    shp[1] # NoShp =>
        IF Found(1) = {}
          THEN ipc[1] = "failed" /\ table = LiveTable
          ELSE gdf[1].cols = {COLUMN_MAPPING[c] : c \in Found(1)} \cup {"geometry"}


(***************************************************************************)
(* Claims on coordinate resolution                                         *)
(***************************************************************************)

ByCoord == req.parcel = "" /\ req.lat # "" /\ req.lon # ""

\* C11 as stated: a coordinate request whose lat or lon is not a
\* well-formed decimal number sends no query to the feature source and ends
\* in a validation failure (400), not in "No parcel found".
C11_MalformedIsRejected ==
    (ByCoord /\ ~(WellFormed(req.lat) /\ WellFormed(req.lon))) =>
        /\ qlog = << >>
        /\ rpc = "done" => resp.status = 400

\* C12 as stated: a coordinate request with well-formed lat and lon sends
\* exactly one query and, when that query returns no feature or the call
\* fails, ends in 404 "No parcel found".
C12_OneQueryThenNotFound ==
    (ByCoord /\ WellFormed(req.lat) /\ WellFormed(req.lon) /\ rpc = "done") =>
        /\ Len(qlog) = 1
        /\ ~qlog[1].hit => resp = Error(404, "No parcel found")


(***************************************************************************)
(* Claims on area analysis                                                 *)
(***************************************************************************)

QueryLimit(op) == IF op = "v1" THEN AreaLimitV1 ELSE AreaLimitEndpoint

ReturnedParcels ==
    (IF qres.kind = "found" THEN {qres.row} ELSE {})
        \cup (IF ares.kind = "ok" THEN ares.rows ELSE {})

C15_Persisted4326 ==
    /\ gdf[1] # NoGdf => gdf[1].crs = "EPSG:4326"
    /\ ipc[1] = "done" =>
          /\ table.exists
          /\ Len(table.rows) = Len(shp[1].sn)
          /\ \A i \in 1..Len(table.rows) : table.rows[i].srid = "EPSG:4326"

\* C15, its case: a successful run on a shapefile of another reference
\* system, all of its rows persisted.
C15_Witness ==
    /\ ipc[1] = "done"
    /\ shp[1].crs = "EPSG:2927"
    /\ Len(table.rows) = MaxRows


(***************************************************************************)
(* Claims on the registry of data sources                                  *)
(***************************************************************************)

\* The registry after one acknowledged request on registry l.
Applied(w, l) == IF w.op = "add" THEN added(l, w.arg) ELSE toggled(l, w.arg)

\* The registries the requests of T leave when served one after another,
\* in any order, on registry l.
RECURSIVE Serial(_, _)
Serial(l, T) ==
    IF T = {} THEN {l}
    ELSE UNION {Serial(Applied(wk[t], l), T \ {t}) : t \in T}

Acknowledged == {t \in Threads : wk[t].pc = "done"}

\* C16 as stated: once no registry request is in flight, sources.json holds
\* what the acknowledged requests leave when applied one after another:
\* every added source is in it and no two sources share an id.
C16_WritesSerialized ==
    (\A t \in Threads : wk[t].pc \in {"idle", "done", "failed"}) =>
        /\ file.state # "bad"
        /\ file.sources \in Serial(<< >>, Acknowledged)
        /\ \A t \in Acknowledged :
              wk[t].op = "add" =>
                  \E i \in 1..Len(file.sources) : file.sources[i].name = wk[t].arg
        /\ \A i, j \in 1..Len(file.sources) :
              file.sources[i].id = file.sources[j].id => i = j

=============================================================================
